---- MODULE Spec2Model ----
(***************************************************************************)
(* Model of the Yubico OTP verification client (src/src/Yubico).           *)
(*                                                                         *)
(* Yubico.verify signs a query, dispatches one HTTPS request per           *)
(* configured API server, consumes the per-server promises with a          *)
(* `for await` loop, validates records with Response.validate and decides  *)
(* the outcome of the call.                                                *)
(***************************************************************************)
EXTENDS Integers, Sequences, FiniteSets, TLC

\* ------------------------------------------------------------------------
\* Bounds of the model
\* ------------------------------------------------------------------------

\* longest caller-supplied options.apiServers list
MaxServers == 3

\* largest number of servers that answer a call with a 200 body
MaxRecords == 2

\* ------------------------------------------------------------------------
\* Program constants
\* ------------------------------------------------------------------------

\* the default server list used when no apiServers option is given
API_SERVERS == <<"api.yubico.com", "api2.yubico.com", "api3.yubico.com",
                 "api4.yubico.com", "api5.yubico.com">>

\* host names a caller may configure instead
CustomHosts == <<"val1.example", "val2.example", "val3.example",
                 "val4.example", "val5.example", "val6.example">>

\* the value of a field that the body did not contain (JavaScript undefined)
Undefined == "<undefined>"

\* enum ResponseStatus
ResponseStatus ==
    {"OK", "BAD_OTP", "REPLAYED_OTP", "BAD_SIGNATURE", "MISSING_PARAMETER",
     "NO_SUCH_CLIENT", "OPERATION_NOT_ALLOWED", "BACKEND_ERROR",
     "NOT_ENOUGH_ANSWERS", "REPLAYED_REQUEST"}

\* the errorMessages table of Response.validate
errorMessages ==
    [s \in ResponseStatus \ {"OK"} |->
        CASE s = "BAD_OTP" -> "The OTP is invalid format"
          [] s = "REPLAYED_OTP" -> "The OTP has already been seen by the service."
          [] s = "BAD_SIGNATURE" -> "The HMAC signature verification failed."
          [] s = "MISSING_PARAMETER" -> "The request lacks a parameter."
          [] s = "NO_SUCH_CLIENT" -> "The client id does not exist. If you just registered for one, please give it 10 minutes to propagate"
          [] s = "OPERATION_NOT_ALLOWED" -> "The client id is not allowed to verify OTPs."
          [] s = "BACKEND_ERROR" -> "Unexpected error in our server. Please contact Yubico if you see this error."
          [] s = "NOT_ENOUGH_ANSWERS" -> "Server could not get requested number of syncs during before timeout."
          [] s = "REPLAYED_REQUEST" -> "Server has seen the OTP/Nonce combination before"]

\* Errors are sequences of strings: the message, followed by the text
\* appended to it ("Unknown status " + this.status).
NoError == <<>>
NetworkError == <<"Yubico API server network error">>
NonceError == <<"Nonces do not equal">>
HashError == <<"Hash provided from server and client hash do not match">>
OtpError == <<"OTPs do not match">>
UnknownStatusError(status) == <<"Unknown status ", status>>
StatusError(status) == <<errorMessages[status]>>

\* Properties every object literal inherits from Object.prototype whose
\* value is a function named like the property: errorMessages[key] finds
\* them when the object has no own property of that name.
ObjectPrototypeKeys ==
    {"toString", "valueOf", "hasOwnProperty", "isPrototypeOf",
     "propertyIsEnumerable", "toLocaleString"}

\* new Error(errorMessage) for an inherited function: its message is the
\* text of the function
InheritedPropertyError(key) == <<"function ", key, "() { [native code] }">>

\* the status branch of validate: errorMessage = errorMessages[this.status];
\* "Unknown status" when it is falsy, otherwise new Error(errorMessage)
StatusBranchError(status) ==
    IF status \in DOMAIN errorMessages THEN StatusError(status)
    ELSE IF status \in ObjectPrototypeKeys THEN InheritedPropertyError(status)
    ELSE UnknownStatusError(status)

\* the errors validate raises for a record whose status is OK
TrustErrors == {NonceError, HashError, OtpError}

\* ------------------------------------------------------------------------
\* Response.validate
\* ------------------------------------------------------------------------

\* a key list that also holds h
keys_WithH == <<"h", "nonce", "otp", "sessioncounter", "sessionuse", "sl", "status",
                "t", "timestamp">>

\* the keys used in the hash, as listed in validate
keys == <<"nonce", "otp", "sessioncounter", "sessionuse", "sl", "status",
          "t", "timestamp">>

\* position of a key in ascending (code unit) order
KeyRank(k) ==
    CASE k = "h" -> 1
      [] k = "id" -> 2
      [] k = "nonce" -> 3
      [] k = "otp" -> 4
      [] k = "sessioncounter" -> 5
      [] k = "sessionuse" -> 6
      [] k = "sl" -> 7
      [] k = "status" -> 8
      [] k = "t" -> 9
      [] k = "timeout" -> 10
      [] k = "timestamp" -> 11

\* insertion of one key into a sorted sequence of keys
RECURSIVE InsertKey(_, _)
InsertKey(k, s) ==
    IF s = <<>> THEN <<k>>
    ELSE IF KeyRank(k) < KeyRank(Head(s)) THEN <<k>> \o s
    ELSE <<Head(s)>> \o InsertKey(k, Tail(s))

\* Array.prototype.sort on a sequence of keys
RECURSIVE SortKeys(_)
SortKeys(s) == IF s = <<>> THEN <<>> ELSE InsertKey(Head(s), SortKeys(Tail(s)))

\* keys.filter(defined).sort().map(key + "=" + value).join("&"): the string
\* is kept as the sequence of its <<key, value>> pairs
CanonicalWith(rec, undefined) ==
    LET present == SelectSeq(keys, LAMBDA k : rec[k] # undefined)
        sorted == SortKeys(present)
    IN  [i \in 1..Len(sorted) |-> <<sorted[i], rec[sorted[i]]>>]

\* the same for a record whose absent fields are Undefined
Canonical(rec) == CanonicalWith(rec, Undefined)

\* crypto.createHmac("sha1", key).update(msg).digest("base64"): an
\* injective function of key and message
Hmac(key, msg) == <<"hmac", key, msg>>

\* validate without the comparison of the OTP echo
validate_NoOtpCheck(rec, nonce, secret, otp) ==
    IF rec.status # "OK"
    THEN StatusBranchError(rec.status)
    ELSE IF rec.nonce # nonce THEN NonceError
    ELSE IF Hmac(secret, Canonical(rec)) # rec.h THEN HashError
    ELSE NoError

\* validate without the status branch
validate_NoStatusBranch(rec, nonce, secret, otp) ==
    IF rec.nonce # nonce THEN NonceError
    ELSE IF Hmac(secret, Canonical(rec)) # rec.h THEN HashError
    ELSE IF rec.otp # otp THEN OtpError
    ELSE NoError

\* validate comparing the OTP before the hash
validate_OtpBeforeHash(rec, nonce, secret, otp) ==
    IF rec.status # "OK"
    THEN StatusBranchError(rec.status)
    ELSE IF rec.nonce # nonce THEN NonceError
    ELSE IF rec.otp # otp THEN OtpError
    ELSE IF Hmac(secret, Canonical(rec)) # rec.h THEN HashError
    ELSE NoError

\* Response.validate: the error it throws, NoError when it returns
validate(rec, nonce, secret, otp) ==
    IF rec.status # "OK"
    THEN StatusBranchError(rec.status)
    ELSE IF rec.nonce # nonce THEN NonceError
    ELSE IF Hmac(secret, Canonical(rec)) # rec.h THEN HashError
    ELSE IF rec.otp # otp THEN OtpError
    ELSE NoError

\* ------------------------------------------------------------------------
\* Values of the environment
\* ------------------------------------------------------------------------

\* secrets, OTPs and nonces that exist in the world
Secrets == {"c2VjcmV0QQ==", "c2VjcmV0Qg=="}
Otps == {"cccccccccccbotpone", "cccccccccccdotptwo"}
Nonces == {"0f0f0f0f0f0f0f0f0f0f0f0f0f0f0f0f", "a1a1a1a1a1a1a1a1a1a1a1a1a1a1a1a1"}

\* the secret the client is configured with, the OTPs it is asked to
\* verify and the values crypto.randomBytes(16).toString("hex") yields
ClientSecrets == {"c2VjcmV0QQ=="}
CallOtps == {"cccccccccccbotpone"}
FreshNonces == {"0f0f0f0f0f0f0f0f0f0f0f0f0f0f0f0f"}

\* new Response(otp, nonce, h, t, status, timestamp, sessioncounter,
\* sessionuse, sl)
Response(otp, nonce, h, t, status, timestamp, sessioncounter, sessionuse, sl) ==
    [otp |-> otp, nonce |-> nonce, h |-> h, t |-> t, status |-> status,
     timestamp |-> timestamp, sessioncounter |-> sessioncounter,
     sessionuse |-> sessionuse, sl |-> sl]

\* the h of a record that carries no h line
NoHash == <<>>

\* the record of a body without any recognised line
EmptyRecord ==
    Response(Undefined, Undefined, NoHash, Undefined, Undefined, Undefined,
             Undefined, Undefined, Undefined)

\* a record signed by a server that holds the key
Signed(key, rec) == [rec EXCEPT !.h = Hmac(key, Canonical(rec))]

\* The records the servers may answer a call with: correctly signed OK
\* records (two server times), an OK record signed with another key, OK
\* records echoing another nonce or another OTP, signed status records and
\* a body that carries no status.
ServerRecords(nonce, secret, otp) ==
    LET other(S, x) == CHOOSE y \in S : y # x
        ok(t) == Response(otp, nonce, NoHash, t, "OK", "8223842", "17", "3", "25")
        bad(s) == Response(otp, nonce, NoHash, "1577836800", s, Undefined,
                           Undefined, Undefined, Undefined)
    IN  { Signed(secret, ok("1577836800")),
          Signed(secret, ok("1577836801")),
          Signed(other(Secrets, secret), ok("1577836800")),
          Signed(secret, [ok("1577836800") EXCEPT !.nonce = other(Nonces, nonce)]),
          Signed(secret, [ok("1577836800") EXCEPT !.otp = other(Otps, otp)]),
          Signed(secret, bad("BAD_OTP")),
          Signed(secret, bad("REPLAYED_OTP")),
          EmptyRecord }

\* ------------------------------------------------------------------------
\* State
\* ------------------------------------------------------------------------

VARIABLES
    apiServers,        \* this.apiServers
    secret,            \* this.secret
    pc,                \* position of the verify call: idle, loop, returned, thrown
    otp,               \* the otp argument of verify
    nonce,             \* the nonce generated for the call
    requestPromises,   \* per server: the promise of its request
    conn,              \* per server: the HTTPS request: open, aborted, closed
    idx,               \* the promise the for await loop is at
    failedResponses,   \* records with a status other than OK, as pushed
    result,            \* the value verify resolved with, <<>> if none
    error,             \* the error verify rejected with, NoError if none
    completion,        \* servers whose promise resolved with a record, in
                       \* the order in which they resolved
    sent,              \* per server: the number of requests sent to it
    fn,                \* the function applied on its own, "none" before
    arg,               \* the arguments it is applied to
    out                \* the value it gave

vars == <<apiServers, secret, pc, otp, nonce, requestPromises, conn, idx,
          failedResponses, result, error, completion, sent, fn, arg, out>>

Servers == 1..Len(apiServers)

\* a promise that has not been resolved
Pending == [settled |-> FALSE, value |-> <<>>]

\* a promise resolved with undefined (value <<>>) or a Response (<<rec>>)
Resolved(value) == [settled |-> TRUE, value |-> value]

\* a promise that takes every resolution, the last one winning
resolve_Overwrite(promises, i, value) ==
    [promises EXCEPT ![i] = Resolved(value)]

\* resolve(value) on the promise of server i: the first resolution wins
resolve(promises, i, value) ==
    IF promises[i].settled THEN promises
    ELSE [promises EXCEPT ![i] = Resolved(value)]

\* the lists the constructor may store in this.apiServers
ServerLists ==
    {SubSeq(CustomHosts, 1, n) : n \in 0..MaxServers} \cup {API_SERVERS}

\* the state after new Yubico(options)
Init ==
    /\ apiServers \in ServerLists
    /\ secret \in ClientSecrets
    /\ pc = "idle"
    /\ otp = Undefined
    /\ nonce = Undefined
    /\ requestPromises = <<>>
    /\ conn = <<>>
    /\ idx = 0
    /\ failedResponses = <<>>
    /\ result = <<>>
    /\ error = NoError
    /\ completion = <<>>
    /\ sent = <<>>
    /\ fn = "none"
    /\ arg = <<>>
    /\ out = <<>>

\* ------------------------------------------------------------------------
\* Yubico.verify: dispatch
\* ------------------------------------------------------------------------

\* verify(otp) up to its first await: the nonce is drawn, one request per
\* server is created and sent, and the loop takes the first promise
VerifyCall(o, n) ==
    /\ pc = "idle"
    /\ pc' = "loop"
    /\ otp' = o
    /\ nonce' = n
    /\ requestPromises' = [i \in Servers |-> Pending]
    /\ conn' = [i \in Servers |-> "open"]
    /\ sent' = [i \in Servers |-> 1]
    /\ idx' = 1
    /\ failedResponses' = <<>>
    /\ UNCHANGED <<fn, arg, out, apiServers, secret, result, error, completion>>

\* ------------------------------------------------------------------------
\* Events of the HTTPS requests
\* ------------------------------------------------------------------------

\* an event is delivered to a request that has not ended
Live(i) == pc # "idle" /\ i \in Servers /\ conn[i] \in {"open", "aborted"}

\* res.on("end") with status code 200: resolve(Response.fromRawBody(body))
ResEndOk(i, rec) ==
    /\ Live(i)
    /\ conn[i] = "open"
    /\ Len(completion) < MaxRecords
    /\ requestPromises' = resolve(requestPromises, i, <<rec>>)
    /\ completion' = IF requestPromises[i].settled THEN completion
                     ELSE Append(completion, i)
    /\ conn' = [conn EXCEPT ![i] = "closed"]
    /\ UNCHANGED <<fn, arg, out, sent, apiServers, secret, pc, otp, nonce, idx, failedResponses,
                   result, error>>

\* res.on("end") with another status code: resolve(undefined)
ResEndNot200(i) ==
    /\ Live(i)
    /\ requestPromises' = resolve(requestPromises, i, <<>>)
    /\ conn' = [conn EXCEPT ![i] = "closed"]
    /\ UNCHANGED <<fn, arg, out, sent, apiServers, secret, pc, otp, nonce, idx, failedResponses,
                   result, error, completion>>

\* res.on("error"): resolve(undefined)
ResError(i) ==
    /\ Live(i)
    /\ requestPromises' = resolve(requestPromises, i, <<>>)
    /\ conn' = [conn EXCEPT ![i] = "closed"]
    /\ UNCHANGED <<fn, arg, out, sent, apiServers, secret, pc, otp, nonce, idx, failedResponses,
                   result, error, completion>>

\* req.on("error", reject): the error of the request rejects the promise
\* the loop awaits, which makes the loop throw it
ReqError_Reject(i) ==
    /\ Live(i)
    /\ requestPromises' = resolve(requestPromises, i, <<>>)
    /\ conn' = [conn EXCEPT ![i] = "closed"]
    /\ IF pc = "loop" /\ idx = i /\ ~requestPromises[i].settled
       THEN pc' = "thrown" /\ error' = <<"socket hang up">>
       ELSE UNCHANGED <<pc, error>>
    /\ UNCHANGED <<fn, arg, out, sent, apiServers, secret, otp, nonce, idx,
                   failedResponses, result, completion>>

\* a request error after which the request is sent once more
ReqError_Retry(i) ==
    /\ Live(i)
    /\ conn[i] = "open"
    /\ sent[i] = 1
    /\ sent' = [sent EXCEPT ![i] = 2]
    /\ UNCHANGED <<fn, arg, out, apiServers, secret, pc, otp, nonce, requestPromises,
                   conn, idx, failedResponses, result, error, completion>>

\* req.on("error"): resolve(undefined)
ReqError(i) ==
    /\ Live(i)
    /\ requestPromises' = resolve(requestPromises, i, <<>>)
    /\ conn' = [conn EXCEPT ![i] = "closed"]
    /\ UNCHANGED <<fn, arg, out, sent, apiServers, secret, pc, otp, nonce, idx, failedResponses,
                   result, error, completion>>

\* ------------------------------------------------------------------------
\* Yubico.verify: the for await loop
\* ------------------------------------------------------------------------

\* the loop resumes when the promise it awaits has been resolved
Awaited == pc = "loop" /\ idx \in Servers /\ requestPromises[idx].settled

\* a cancellation callback: req.abort(); resolve(undefined)
Cancel(promises, i) == resolve(promises, i, <<>>)

\* a cancellation broadcast that calls no callback
CancelAll_Nothing(promises, n) == promises

\* cancellationCallbacks.map((cb) => cb()) on the promises
RECURSIVE CancelAll(_, _)
CancelAll(promises, n) ==
    IF n = 0 THEN promises ELSE Cancel(CancelAll(promises, n - 1), n)

\* req.abort() of every callback on the requests
AbortAll(c) == [i \in DOMAIN c |-> IF c[i] = "open" THEN "aborted" ELSE c[i]]

\* a loop that gives up a promise that is still pending
LoopNoResponse_Deadline ==
    /\ pc = "loop"
    /\ idx \in Servers
    /\ requestPromises[idx].value = <<>>
    /\ idx' = idx + 1
    /\ UNCHANGED <<fn, arg, out, sent, apiServers, secret, pc, otp, nonce, requestPromises, conn,
                   failedResponses, result, error, completion>>

\* if (!res) continue
LoopNoResponse ==
    /\ Awaited
    /\ requestPromises[idx].value = <<>>
    /\ idx' = idx + 1
    /\ UNCHANGED <<fn, arg, out, sent, apiServers, secret, pc, otp, nonce, requestPromises, conn,
                   failedResponses, result, error, completion>>

\* the OK branch holding a record that fails validation as a candidate
\* failure instead of rethrowing
LoopOk_HoldViolation ==
    /\ Awaited
    /\ requestPromises[idx].value # <<>>
    /\ LET res == requestPromises[idx].value[1]
           thrown == validate(res, nonce, secret, otp)
       IN  /\ res.status = "OK"
           /\ IF thrown # NoError
              THEN /\ failedResponses' = Append(failedResponses, res)
                   /\ idx' = idx + 1
                   /\ UNCHANGED <<pc, error, requestPromises, conn, result>>
              ELSE /\ requestPromises' = CancelAll(requestPromises, Len(requestPromises))
                   /\ conn' = AbortAll(conn)
                   /\ pc' = "returned"
                   /\ result' = <<res>>
                   /\ UNCHANGED <<error, idx, failedResponses>>
    /\ UNCHANGED <<fn, arg, out, sent, apiServers, secret, otp, nonce, completion>>

\* the OK branch cancelling the requests before it rethrows as well
LoopOk_CancelOnThrow ==
    /\ Awaited
    /\ requestPromises[idx].value # <<>>
    /\ LET res == requestPromises[idx].value[1]
           thrown == validate(res, nonce, secret, otp)
       IN  /\ res.status = "OK"
           /\ requestPromises' = CancelAll(requestPromises, Len(requestPromises))
           /\ conn' = AbortAll(conn)
           /\ IF thrown # NoError
              THEN /\ pc' = "thrown"
                   /\ error' = thrown
                   /\ UNCHANGED result
              ELSE /\ pc' = "returned"
                   /\ result' = <<res>>
                   /\ UNCHANGED error
    /\ UNCHANGED <<fn, arg, out, sent, apiServers, secret, otp, nonce, idx,
                   failedResponses, completion>>

\* res.getStatus() === OK: validate, then cancel every request and return;
\* an error thrown by validate rejects verify
LoopOk ==
    /\ Awaited
    /\ requestPromises[idx].value # <<>>
    /\ LET res == requestPromises[idx].value[1]
           thrown == validate(res, nonce, secret, otp)
       IN  /\ res.status = "OK"
           /\ IF thrown # NoError
              THEN /\ pc' = "thrown"
                   /\ error' = thrown
                   /\ UNCHANGED <<requestPromises, conn, result>>
              ELSE /\ requestPromises' = CancelAll(requestPromises, Len(requestPromises))
                   /\ conn' = AbortAll(conn)
                   /\ pc' = "returned"
                   /\ result' = <<res>>
                   /\ UNCHANGED error
    /\ UNCHANGED <<fn, arg, out, sent, apiServers, secret, otp, nonce, idx, failedResponses,
                   completion>>

\* the non-OK branch validating at once, which throws the status error
LoopFailed_Abort ==
    /\ Awaited
    /\ requestPromises[idx].value # <<>>
    /\ LET res == requestPromises[idx].value[1]
       IN  /\ res.status # "OK"
           /\ pc' = "thrown"
           /\ error' = validate(res, nonce, secret, otp)
    /\ UNCHANGED <<fn, arg, out, sent, apiServers, secret, otp, nonce, requestPromises, conn, idx,
                   failedResponses, result, completion>>

\* a push of the record whatever its status is
LoopFailed_AnyStatus ==
    /\ Awaited
    /\ requestPromises[idx].value # <<>>
    /\ failedResponses' = Append(failedResponses, requestPromises[idx].value[1])
    /\ idx' = idx + 1
    /\ UNCHANGED <<fn, arg, out, sent, apiServers, secret, pc, otp, nonce, requestPromises, conn,
                   result, error, completion>>

\* a loop that passes over a record without a status as over no response
LoopFailed_SkipNoStatus ==
    /\ Awaited
    /\ requestPromises[idx].value # <<>>
    /\ LET res == requestPromises[idx].value[1]
       IN  /\ res.status # "OK"
           /\ failedResponses' = IF res.status = Undefined THEN failedResponses
                                 ELSE Append(failedResponses, res)
    /\ idx' = idx + 1
    /\ UNCHANGED <<fn, arg, out, sent, apiServers, secret, pc, otp, nonce, requestPromises, conn,
                   result, error, completion>>

\* a loop that puts the record at the front of the list
LoopFailed_Unshift ==
    /\ Awaited
    /\ requestPromises[idx].value # <<>>
    /\ LET res == requestPromises[idx].value[1]
       IN  /\ res.status # "OK"
           /\ failedResponses' = <<res>> \o failedResponses
    /\ idx' = idx + 1
    /\ UNCHANGED <<fn, arg, out, sent, apiServers, secret, pc, otp, nonce, requestPromises, conn,
                   result, error, completion>>

\* any other status: failedResponses.push(res)
LoopFailed ==
    /\ Awaited
    /\ requestPromises[idx].value # <<>>
    /\ LET res == requestPromises[idx].value[1]
       IN  /\ res.status # "OK"
           /\ failedResponses' = Append(failedResponses, res)
    /\ idx' = idx + 1
    /\ UNCHANGED <<fn, arg, out, sent, apiServers, secret, pc, otp, nonce, requestPromises, conn,
                   result, error, completion>>

\* the end of the loop validating the last held record
LoopExit_LastFailed ==
    /\ pc = "loop"
    /\ idx = Len(apiServers) + 1
    /\ IF failedResponses = <<>>
       THEN /\ pc' = "thrown"
            /\ error' = NetworkError
            /\ UNCHANGED result
       ELSE LET last == failedResponses[Len(failedResponses)]
                thrown == validate(last, nonce, secret, otp)
            IN  IF thrown # NoError
                THEN /\ pc' = "thrown"
                     /\ error' = thrown
                     /\ UNCHANGED result
                ELSE /\ pc' = "returned"
                     /\ result' = <<last>>
                     /\ UNCHANGED error
    /\ UNCHANGED <<fn, arg, out, sent, apiServers, secret, otp, nonce, requestPromises, conn, idx,
                   failedResponses, completion>>

\* the end of the loop throwing the network error whatever was held
LoopExit_NetworkAlways ==
    /\ pc = "loop"
    /\ idx = Len(apiServers) + 1
    /\ pc' = "thrown"
    /\ error' = NetworkError
    /\ UNCHANGED <<fn, arg, out, sent, apiServers, secret, otp, nonce, requestPromises, conn, idx,
                   failedResponses, result, completion>>

\* after the loop: the network error when nothing was held, otherwise the
\* error of validating failedResponses[0], or that record if none is thrown
LoopExit ==
    /\ pc = "loop"
    /\ idx = Len(apiServers) + 1
    /\ IF failedResponses = <<>>
       THEN /\ pc' = "thrown"
            /\ error' = NetworkError
            /\ UNCHANGED result
       ELSE LET thrown == validate(failedResponses[1], nonce, secret, otp)
            IN  IF thrown # NoError
                THEN /\ pc' = "thrown"
                     /\ error' = thrown
                     /\ UNCHANGED result
                ELSE /\ pc' = "returned"
                     /\ result' = <<failedResponses[1]>>
                     /\ UNCHANGED error
    /\ UNCHANGED <<fn, arg, out, sent, apiServers, secret, otp, nonce, requestPromises, conn, idx,
                   failedResponses, completion>>

\* ------------------------------------------------------------------------
\* Specification
\* ------------------------------------------------------------------------

Next ==
    \/ \E o \in CallOtps, n \in FreshNonces : VerifyCall(o, n)
    \/ \E i \in Servers, rec \in ServerRecords(nonce, secret, otp) : ResEndOk(i, rec)
    \/ \E i \in Servers : ResEndNot200(i)
    \/ \E i \in Servers : ResError(i)
    \/ \E i \in Servers : ReqError(i)
    \/ LoopNoResponse
    \/ LoopOk
    \/ LoopFailed
    \/ LoopExit

Spec == Init /\ [][Next]_vars

\* ------------------------------------------------------------------------
\* Well-formedness of the state
\* ------------------------------------------------------------------------

TypeOK ==
    /\ apiServers \in ServerLists
    /\ secret \in Secrets
    /\ pc \in {"idle", "loop", "returned", "thrown"}
    /\ pc # "idle" =>
        /\ otp \in Otps
        /\ nonce \in Nonces
        /\ DOMAIN requestPromises = Servers
        /\ DOMAIN conn = Servers
        /\ idx \in 1..(Len(apiServers) + 1)
        /\ \A i \in Servers : conn[i] \in {"open", "aborted", "closed"}
    /\ Len(result) <= 1
    /\ (pc = "returned") = (result # <<>>)
    /\ (pc = "thrown") = (error # NoError)

\* ------------------------------------------------------------------------
\* Derived notions
\* ------------------------------------------------------------------------

\* the verify call has completed
Completed == pc \in {"returned", "thrown"}

\* the promise of server i was resolved with a Response
HasRecord(i) == requestPromises[i].settled /\ requestPromises[i].value # <<>>

\* the Response the promise of server i was resolved with
RecordOf(i) == requestPromises[i].value[1]

\* the loop body has run on the result of server i: the loop takes the
\* promises by increasing index and stops at the one it returns or throws on
Processed(i) == pc # "idle" /\ (i < idx \/ (i = idx /\ Completed))

\* the result of server i was processed before that of server j
ProcessedBefore(i, j) == Processed(i) /\ (~Processed(j) \/ i < j)

\* server i answered a record that validate accepts
TrustedSuccess(i) ==
    HasRecord(i) /\ validate(RecordOf(i), nonce, secret, otp) = NoError

\* server i answered a status-OK record that validate rejects
TrustViolation(i) ==
    /\ HasRecord(i)
    /\ RecordOf(i).status = "OK"
    /\ validate(RecordOf(i), nonce, secret, otp) # NoError

\* the error validate raises for a status other than OK
StatusErrorOf(status) == StatusBranchError(status)

\* the outcome of the call
Outcome == [pc |-> pc, result |-> result, error |-> error]

\* The outcome of the loop of verify when it consumes the promises in
\* the given order of servers: the fold of the loop body over the order.
RECURSIVE LoopOutcome(_, _, _)
LoopOutcome(order, k, failed) ==
    IF k > Len(order)
    THEN IF failed = <<>>
         THEN [pc |-> "thrown", result |-> <<>>, error |-> NetworkError]
         ELSE LET thrown == validate(failed[1], nonce, secret, otp)
              IN  IF thrown # NoError
                  THEN [pc |-> "thrown", result |-> <<>>, error |-> thrown]
                  ELSE [pc |-> "returned", result |-> <<failed[1]>>, error |-> NoError]
    ELSE LET value == requestPromises[order[k]].value
         IN  IF value = <<>> THEN LoopOutcome(order, k + 1, failed)
             ELSE IF value[1].status = "OK"
             THEN LET thrown == validate(value[1], nonce, secret, otp)
                  IN  IF thrown # NoError
                      THEN [pc |-> "thrown", result |-> <<>>, error |-> thrown]
                      ELSE [pc |-> "returned", result |-> <<value[1]>>, error |-> NoError]
             ELSE LoopOutcome(order, k + 1, Append(failed, value[1]))

\* the orders in which a list of n servers can be configured
ServerOrders(n) ==
    {p \in [1..n -> 1..n] : \A i, j \in 1..n : p[i] = p[j] => i = j}

\* every request of the call ended by itself (none was aborted)
AllEndedByThemselves == \A i \in Servers : conn[i] = "closed"

\* The fold agrees with the loop of the state machine on the configured
\* order.
LoopOutcomeAgrees ==
    Completed => LoopOutcome([i \in Servers |-> i], 1, <<>>) = Outcome

\* verify is able to go on without a further event of a request: the
\* promise its loop awaits has been resolved, or the loop is over
CanProceed == Awaited \/ (pc = "loop" /\ idx = Len(apiServers) + 1)

\* ------------------------------------------------------------------------
\* Claims
\* ------------------------------------------------------------------------

\* C1: every Response that verify returns has status OK, the nonce of the
\* call, a hash equal to the HMAC recomputed over its defined fields and
\* the otp argument of the call.
C1_ReturnedRecordValidated ==
    pc = "returned" =>
        /\ Len(result) = 1
        /\ result[1].status = "OK"
        /\ result[1].nonce = nonce
        /\ result[1].h = Hmac(secret, Canonical(result[1]))
        /\ result[1].otp = otp

\* a record has been returned while other servers had answered too
C1_Witness ==
    /\ pc = "returned"
    /\ result[1].status = "OK"
    /\ Len(completion) > 1

\* C2: results are consumed in completion order: of two replies, the one
\* that completed first is never processed after the other.
C2_CompletionOrder ==
    \A a, b \in 1..Len(completion) :
        a < b => ~ProcessedBefore(completion[b], completion[a])

\* C3: for fixed per-server replies and completion times, every order of
\* the configured server list gives the same outcome.
C3_ListOrderIndependent ==
    (Completed /\ AllEndedByThemselves) =>
        \A order \in ServerOrders(Len(apiServers)) :
            LoopOutcome(order, 1, <<>>) = Outcome

\* C4: when the loop takes a status-OK record that passes validation,
\* that very step cancels every request and returns the record; a call
\* that has returned keeps its one record.
C4_CancelAndReturn ==
    [][ /\ (Awaited /\ TrustedSuccess(idx) /\ <<pc, idx, failedResponses>>' # <<pc, idx, failedResponses>>)
            => /\ pc' = "returned"
               /\ result' = <<RecordOf(idx)>>
               /\ \A i \in Servers :
                    requestPromises'[i].settled /\ conn'[i] # "open"
        /\ pc = "returned" => (pc' = "returned" /\ result' = result)
      ]_vars

\* a record has been returned while requests of other servers were in
\* flight: they were aborted and resolved by the cancellation
C4_Witness ==
    /\ pc = "returned"
    /\ \E i \in Servers : conn[i] = "aborted" /\ requestPromises[i].value = <<>>

\* the scenario of C5: the five default servers, exactly one has answered,
\* with a record that validate accepts, and the other four are in flight
Scenario5 ==
    /\ apiServers = API_SERVERS
    /\ pc = "loop"
    /\ \E i \in Servers :
        /\ TrustedSuccess(i)
        /\ \A j \in Servers \ {i} : ~requestPromises[j].settled /\ conn[j] = "open"

\* C5: in the scenario verify returns the record and cancels the other
\* four, at whichever position the answering server is; as the other four
\* never answer, verify has to be able to take its next step by itself.
C5_ScenarioProceeds == Scenario5 => CanProceed

\* C6: once a status-OK reply that fails validation has completed, verify
\* never returns a record and does not wait for a server that is pending.
C6_AbortOnCompletion ==
    \A i \in Servers :
        (pc # "idle" /\ TrustViolation(i)) =>
            /\ pc # "returned"
            /\ pc = "loop" => CanProceed

\* C7: whenever verify has processed a status-OK record that fails
\* validation, verify has failed with that validation error, which is a
\* nonce, hash or OTP mismatch.
C7_TrustViolationSurfaced ==
    \A i \in Servers :
        (Processed(i) /\ TrustViolation(i)) =>
            /\ pc = "thrown"
            /\ error = validate(RecordOf(i), nonce, secret, otp)
            /\ error \in TrustErrors

\* a trust violation was raised after a non-OK record had been held
C7_Witness ==
    /\ pc = "thrown"
    /\ error \in TrustErrors
    /\ failedResponses # <<>>

\* C8: a non-OK record does not end the call: an error other than a
\* trust violation is raised only after every server was consumed, and a
\* call that returns raises nothing and returns a record that validates.
C8_HeldNotSurfaced ==
    /\ (pc = "thrown" /\ error \notin TrustErrors) => idx = Len(apiServers) + 1
    /\ pc = "returned" =>
        /\ error = NoError
        /\ validate(result[1], nonce, secret, otp) = NoError

\* a record was returned after a non-OK record had been held
C8_Witness == pc = "returned" /\ failedResponses # <<>>

\* the first server of the list that answered a record with a status other
\* than OK: the first such record the loop comes to
FirstNonOk ==
    CHOOSE i \in Servers :
        /\ HasRecord(i) /\ RecordOf(i).status # "OK"
        /\ \A j \in 1..(i - 1) : ~(HasRecord(j) /\ RecordOf(j).status # "OK")

\* C9: when the loop has consumed every server without meeting a
\* status-OK record and a non-OK record was met, verify fails with the
\* status error of the first non-OK record met.
C9_FirstCandidateError ==
    (Completed /\ idx = Len(apiServers) + 1 /\ failedResponses # <<>>) =>
        /\ pc = "thrown"
        /\ error = StatusErrorOf(RecordOf(FirstNonOk).status)

\* a status error was raised with two records of different status held
C9_Witness ==
    /\ pc = "thrown"
    /\ Len(failedResponses) > 1
    /\ failedResponses[1].status # failedResponses[2].status
    /\ error = StatusErrorOf(failedResponses[1].status)

\* C10: a completed call has failed with the network error exactly when
\* every server settled without a record; the network error is none of the
\* trust or status errors.
C10_NetworkErrorIffNoRecord ==
    /\ Completed =>
        ((error = NetworkError) <=>
            \A i \in Servers :
                requestPromises[i].settled /\ requestPromises[i].value = <<>>)
    /\ NetworkError \notin TrustErrors
    /\ \A s \in ResponseStatus \cup {Undefined} : s # "OK" => NetworkError # StatusErrorOf(s)

\* the network error was raised with servers configured
C10_Witness ==
    /\ pc = "thrown"
    /\ error = NetworkError
    /\ Len(apiServers) > 1

\* the promise of server i was resolved with undefined
NoAnswer(i) == requestPromises[i].settled /\ requestPromises[i].value = <<>>

\* a step in which a cancellation callback aborts a request in flight
CancelStep ==
    \E i \in Servers : pc # "idle" /\ conn[i] = "open" /\ conn'[i] = "aborted"

C12_CancelOnlyOnTrustedSuccess ==
    [][ /\ CancelStep =>
            /\ pc = "loop"
            /\ TrustedSuccess(idx)
            /\ pc' = "returned"
            /\ result' = <<RecordOf(idx)>>
        /\ (pc = "loop" /\ pc' = "thrown") =>
            (conn' = conn /\ requestPromises' = requestPromises)
        /\ Completed => ~CancelStep
      ]_vars

\* the call returned after holding a non-OK record and aborted a request
C12_Witness ==
    /\ pc = "returned"
    /\ failedResponses # <<>>
    /\ \E i \in Servers : conn[i] = "aborted"

\* C13: a resolved promise keeps its value in every step; the step that
\* cancels resolves every pending promise with undefined, leaves none
\* pending and raises nothing.
C13_SingleAssignment ==
    [][ pc # "idle" =>
            /\ \A i \in Servers :
                requestPromises[i].settled => requestPromises'[i] = requestPromises[i]
            /\ CancelStep =>
                /\ error' = NoError
                /\ \A i \in Servers :
                    /\ requestPromises'[i].settled
                    /\ ~requestPromises[i].settled => requestPromises'[i] = Resolved(<<>>)
      ]_vars

\* after the cancellation another server's promise still holds the record
\* it had been resolved with, and a pending request was aborted
C13_Witness ==
    /\ pc = "returned"
    /\ \E i \in Servers : i # idx /\ HasRecord(i)
    /\ \E j \in Servers : NoAnswer(j) /\ conn[j] = "aborted"

\* ------------------------------------------------------------------------
\* Response.validate applied on its own
\* ------------------------------------------------------------------------

\* the variables of the verify call, which a function applied on its own
\* leaves as the constructor set them
callVars == <<apiServers, secret, pc, otp, nonce, requestPromises, conn, idx,
              failedResponses, result, error, completion, sent>>

\* the state after new Yubico() with the default servers
Constructed ==
    /\ apiServers = API_SERVERS
    /\ secret \in ClientSecrets
    /\ pc = "idle"
    /\ otp = Undefined
    /\ nonce = Undefined
    /\ requestPromises = <<>>
    /\ conn = <<>>
    /\ idx = 0
    /\ failedResponses = <<>>
    /\ result = <<>>
    /\ error = NoError
    /\ completion = <<>>
    /\ sent = <<>>

\* values of the status line: the vocabulary, no status line, a status the
\* vocabulary does not have, and names every object inherits
StatusValues ==
    ResponseStatus \cup {Undefined, "BACKEND_TIMEOUT", "toString", "valueOf"}

\* The records validate may be called on: every status value, the nonce and
\* OTP echo present (either value) or absent, the server time present or
\* absent, and as h the signature under either key, a signature made over
\* another server time, or no h line.
ValidateRecords ==
    LET unsigned ==
            { Response(o, n, NoHash, t, s, Undefined, Undefined, Undefined,
                       Undefined) :
                o \in Otps \cup {Undefined}, n \in Nonces \cup {Undefined},
                t \in {"1577836800", Undefined}, s \in StatusValues }
    IN  unsigned
        \cup { Signed(k, rec) : k \in Secrets, rec \in unsigned }
        \cup { [rec EXCEPT !.h = Hmac(k, Canonical([rec EXCEPT !.t = "1577836801"]))] :
                 k \in ClientSecrets, rec \in unsigned }

\* the arguments of response.validate(nonce, secret, otp)
ValidateArgs ==
    [rec : ValidateRecords, nonce : Nonces, secret : ClientSecrets, otp : Otps]

InitValidate ==
    /\ Constructed
    /\ fn = "none"
    /\ arg \in ValidateArgs
    /\ out = <<>>

\* arg.rec.validate(arg.nonce, arg.secret, arg.otp)
ValidateCall ==
    /\ fn = "none"
    /\ fn' = "validate"
    /\ out' = validate(arg.rec, arg.nonce, arg.secret, arg.otp)
    /\ UNCHANGED <<arg, callVars>>

NextValidate == ValidateCall

SpecValidate == InitValidate /\ [][NextValidate]_vars

\* the three comparisons of validate, stated on the arguments
SignatureMatches == arg.rec.h = Hmac(arg.secret, Canonical(arg.rec))
NonceMatches == arg.rec.nonce = arg.nonce
OtpMatches == arg.rec.otp = arg.otp

\* C14 (as stated): validate accepts the record if and only if its h equals
\* the HMAC recomputed over the canonical string of its defined fields, its
\* nonce equals the expected nonce and its otp equals the expected OTP.
C14_AcceptsIffThreeMatch ==
    fn = "validate" =>
        (out = NoError <=> (SignatureMatches /\ NonceMatches /\ OtpMatches))

\* C14 (amended): validate accepts the record if and only if its status is
\* OK and its h equals the recomputed HMAC, its nonce equals the expected
\* nonce and its otp equals the expected OTP.
C14_AcceptsIffOkAndThreeMatch ==
    fn = "validate" =>
        (out = NoError <=>
            (arg.rec.status = "OK" /\ SignatureMatches /\ NonceMatches /\ OtpMatches))

\* validate accepted a record
C14_Witness ==
    /\ fn = "validate"
    /\ out = NoError
    /\ arg.rec.status = "OK" /\ SignatureMatches /\ NonceMatches /\ OtpMatches

\* C15: for each of the 9 statuses of the vocabulary other than OK validate
\* fails with the message of that status, the messages being distinct; for
\* every other status, an absent one included, it fails with the "Unknown
\* status" error; it never succeeds for a record whose status is not OK.
C15_StatusMappingTotal ==
    /\ \A s, r \in DOMAIN errorMessages : s # r => errorMessages[s] # errorMessages[r]
    /\ (fn = "validate" /\ arg.rec.status # "OK") =>
          /\ out # NoError
          /\ out = IF arg.rec.status \in DOMAIN errorMessages
                   THEN <<errorMessages[arg.rec.status]>>
                   ELSE UnknownStatusError(arg.rec.status)

\* ------------------------------------------------------------------------
\* Response.fromRawBody
\* ------------------------------------------------------------------------

\* A text is the sequence of its characters; a word that the parser never
\* looks into ("otp", "status", "a") stands as one character.
CR == "<CR>"
LF == "<LF>"
EQ == "="

\* the line terminators, which the . of a regular expression does not match
LineTerminators == {CR, LF}

\* a value of the parser: undefined, or a string with its text
Undef == <<>>
Str(text) == <<text>>

\* body.replace(/\r\n/g, "\n")
RECURSIVE replaceCRLF(_)
replaceCRLF(body) ==
    IF body = <<>> THEN <<>>
    ELSE IF Len(body) >= 2 /\ body[1] = CR /\ body[2] = LF
         THEN <<LF>> \o replaceCRLF(SubSeq(body, 3, Len(body)))
         ELSE <<Head(body)>> \o replaceCRLF(Tail(body))

\* text.split("\n"): the segments between the line feeds, of which there
\* is always at least one
RECURSIVE split(_)
split(text) ==
    LET feeds == {p \in 1..Len(text) : text[p] = LF}
    IN  IF feeds = {} THEN <<text>>
        ELSE LET p == CHOOSE q \in feeds : \A r \in feeds : q <= r
             IN  <<SubSeq(text, 1, p - 1)>> \o split(SubSeq(text, p + 1, Len(text)))

\* segments.slice(0, -2)
slice(segments) ==
    IF Len(segments) <= 2 THEN <<>> ELSE SubSeq(segments, 1, Len(segments) - 2)

\* the key and the value of a line divided at its first '=', whatever
\* follows it
SplitAtFirstEq(current) ==
    LET eqs == {p \in 1..Len(current) : current[p] = EQ}
    IN  IF eqs = {} THEN <<Str(current), Undef>>
        ELSE LET p == CHOOSE q \in eqs : \A r \in eqs : q <= r
             IN  <<Str(SubSeq(current, 1, p - 1)),
                   Str(SubSeq(current, p + 1, Len(current)))>>

\* const [key, value] = current.split(/=(.+)/): the pattern matches at the
\* leftmost '=' that is followed by a character other than a line
\* terminator, and captures the characters up to the next line terminator;
\* key is the text before the match and value the captured text. Without a
\* match the key is the whole of current and the value is undefined.
splitKeyValue(current) ==
    LET matches == {p \in 1..(Len(current) - 1) :
                       current[p] = EQ /\ current[p + 1] \notin LineTerminators}
    IN  IF matches = {} THEN <<Str(current), Undef>>
        ELSE LET p == CHOOSE q \in matches : \A r \in matches : q <= r
                 stops == {q \in (p + 1)..Len(current) : current[q] \in LineTerminators}
                 last == IF stops = {} THEN Len(current)
                         ELSE (CHOOSE q \in stops : \A r \in stops : q <= r) - 1
             IN  <<Str(SubSeq(current, 1, p - 1)), Str(SubSeq(current, p + 1, last))>>

\* keyValuePairs.reduce(... Object.assign(accumulated, {[key]: value}), {}):
\* the assignments in their order
RECURSIVE reduce(_)
reduce(keyValuePairs) ==
    IF keyValuePairs = <<>> THEN <<>>
    ELSE <<splitKeyValue(Head(keyValuePairs))>> \o reduce(Tail(keyValuePairs))

\* values[name]: the value assigned last to the key, undefined if none
Get(values, name) ==
    LET hits == {i \in 1..Len(values) : values[i][1] = Str(<<name>>)}
    IN  IF hits = {} THEN Undef
        ELSE values[CHOOSE i \in hits : \A j \in hits : j <= i][2]

\* new Response(values.otp, values.nonce, ...)
ResponseOf(values) ==
    Response(Get(values, "otp"), Get(values, "nonce"), Get(values, "h"),
             Get(values, "t"), Get(values, "status"), Get(values, "timestamp"),
             Get(values, "sessioncounter"), Get(values, "sessionuse"),
             Get(values, "sl"))

\* Response.fromRawBody(body)
fromRawBody(body) == ResponseOf(reduce(slice(split(replaceCRLF(body)))))

\* ------------------------------------------------------------------------
\* Response.fromRawBody applied on its own
\* ------------------------------------------------------------------------

\* the number of lines of a body
MaxLines == 2

\* keys a line may carry: three of the keys the record takes, and one it
\* does not
RecordKeys == {"otp", "status", "h"}
LineKeys == RecordKeys \cup {"zz"}

\* texts after the '=' of a line: none, a word, a word with padding, a
\* leading '=', and a word that holds a carriage return
LineValues == {<<>>, <<"a">>, <<"a", EQ>>, <<EQ, "a">>, <<"a", CR, "b">>}

\* the lines of a body: a key, and the text after '=' or Undef for a line
\* without '='
BodyLines ==
    {[key |-> k, value |-> Str(v)] : k \in RecordKeys, v \in LineValues \ {<<"a", CR, "b">>}}
    \cup {[key |-> "zz", value |-> Str(<<"a">>)],
          [key |-> "otp", value |-> Str(<<"a", CR, "b">>)],
          [key |-> "otp", value |-> Undef]}

\* the text of a line
LineText(line) ==
    IF line.value = Undef THEN <<line.key>> ELSE <<line.key, EQ>> \o line.value[1]

\* the line breaks a body may use
Breaks == {<<LF>>, <<CR, LF>>}

\* the body a server sends: the lines separated by the line break,
\* followed by tail further line breaks (2 for a blank line at the end)
RECURSIVE Encode(_, _, _)
Encode(lines, br, tail) ==
    IF Len(lines) = 1
    THEN LineText(lines[1])
         \o (IF tail >= 1 THEN br ELSE <<>>) \o (IF tail >= 2 THEN br ELSE <<>>)
    ELSE LineText(Head(lines)) \o br \o Encode(Tail(lines), br, tail)

\* the bodies fromRawBody may be called on
ParseArgs ==
    UNION {[lines : [1..n -> BodyLines], br : Breaks, tail : 0..2] : n \in 1..MaxLines}

InitParse ==
    /\ Constructed
    /\ fn = "none"
    /\ arg \in ParseArgs
    /\ out = <<>>

\* Response.fromRawBody(body): the values object as the assignments made to
\* it, and the Response built from it
ParseCall ==
    /\ fn = "none"
    /\ fn' = "fromRawBody"
    /\ LET body == Encode(arg.lines, arg.br, arg.tail)
       IN  out' = [values |-> reduce(slice(split(replaceCRLF(body)))),
                   response |-> fromRawBody(body)]
    /\ UNCHANGED <<arg, callVars>>

NextParse == ParseCall

SpecParse == InitParse /\ [][NextParse]_vars

\* the lines of arg are key=value lines over distinct keys of the record,
\* without a line terminator in a value, and the body ends with a blank line
WellFormedEncoding ==
    /\ arg.tail = 2
    /\ \A i \in DOMAIN arg.lines :
          /\ arg.lines[i].key \in RecordKeys
          /\ arg.lines[i].value # Undef
          /\ \A p \in DOMAIN arg.lines[i].value[1] :
                arg.lines[i].value[1][p] \notin LineTerminators
    /\ \A i, j \in DOMAIN arg.lines : i # j => arg.lines[i].key # arg.lines[j].key

\* C16: parsing the encoding of a field map over the recognised keys, made
\* of key=value lines and a blank line at the end, gives a record that holds
\* the original value for every encoded key and is absent for every other
\* key.
C16_ParseLeftInverse ==
    (fn = "fromRawBody" /\ WellFormedEncoding) =>
        \A k \in {"otp", "nonce", "h", "t", "status", "timestamp",
                  "sessioncounter", "sessionuse", "sl"} :
            out.response[k] =
                IF \E i \in DOMAIN arg.lines : arg.lines[i].key = k
                THEN (CHOOSE l \in {arg.lines[i] : i \in DOMAIN arg.lines} : l.key = k).value
                ELSE Undef

\* C17: of a body that ends with a blank segment, with bare or with
\* carriage-return-prefixed line breaks, only that segment is discarded:
\* every line before it contributes its key and value.
C17_OnlyTrailingBlankDiscarded ==
    (fn = "fromRawBody" /\ arg.tail >= 1) =>
        out.values = [i \in DOMAIN arg.lines |-> splitKeyValue(LineText(arg.lines[i]))]

\* C18: every line that contains '=' is divided at its first '=' into the
\* key before it and the value after it, further '=' and an empty value
\* included.
C18_SplitAtFirstEq ==
    (fn = "fromRawBody" /\ arg.tail = 2) =>
        \A i \in DOMAIN arg.lines :
            arg.lines[i].value # Undef =>
                /\ out.values[i] = SplitAtFirstEq(LineText(arg.lines[i]))
                /\ out.values[i] = <<Str(<<arg.lines[i].key>>), arg.lines[i].value>>

\* ------------------------------------------------------------------------
\* Yubico.verify: the query and its signature
\* ------------------------------------------------------------------------

\* a value of an option, an environment variable or an instance field;
\* a number is kept as its decimal text
JsUndefined == [kind |-> "undefined", text |-> ""]
JsNumber(text) == [kind |-> "number", text |-> text]
JsString(text) == [kind |-> "string", text |-> text]

\* the value counts as true in a condition
Truthy(v) ==
    CASE v.kind = "undefined" -> FALSE
      [] v.kind = "number" -> v.text \notin {"0", "NaN"}
      [] v.kind = "string" -> v.text # ""

\* parseInt(text, 10) of a decimal text
parseInt(v) == JsNumber(v.text)

\* this.sl as the constructor sets it
thisSl(options, env) ==
    IF Truthy(options.sl) THEN options.sl ELSE env.YUBICO_SL

\* this.timeout as the constructor sets it
thisTimeout(options, env) ==
    IF Truthy(options.timeout) THEN options.timeout
    ELSE IF Truthy(env.YUBICO_TIMEOUT) THEN parseInt(env.YUBICO_TIMEOUT)
    ELSE JsUndefined

\* requestParams.append(name, value)
append(params, name, value) == Append(params, <<name, value>>)

\* insertion of a parameter behind the parameters whose name is not greater
RECURSIVE InsertParam(_, _)
InsertParam(p, s) ==
    IF s = <<>> THEN <<p>>
    ELSE IF KeyRank(p[1]) < KeyRank(Head(s)[1]) THEN <<p>> \o s
    ELSE <<Head(s)>> \o InsertParam(p, Tail(s))

\* a sort that leaves the parameters as they were appended
sort_None(params) == params

\* requestParams.sort(): a stable sort by name
RECURSIVE sort(_)
sort(params) ==
    IF params = <<>> THEN <<>>
    ELSE InsertParam(params[Len(params)], sort(SubSeq(params, 1, Len(params) - 1)))

\* requestParams.toString(): name=value joined by '&' (the values used here
\* hold no character that is percent-encoded)
RECURSIVE toString(_)
toString(params) ==
    IF params = <<>> THEN <<>>
    ELSE IF Len(params) = 1 THEN <<params[1][1], EQ, params[1][2]>>
    ELSE <<params[1][1], EQ, params[1][2], "&">> \o toString(Tail(params))

\* the parameters verify appends before it sorts them
appendParams(clientId, sl, timeout, o, n) ==
    LET required == append(append(append(append(<<>>, "id", clientId), "otp", o),
                                  "timestamp", "1"), "nonce", n)
        withSl == IF Truthy(sl) THEN append(required, "sl", sl.text) ELSE required
    IN  IF Truthy(timeout) THEN append(withSl, "timeout", timeout.text) ELSE withSl

\* a request in which the hash is appended before the parameters are sorted
verifyRequest_HashBeforeSort(clientId, key, sl, timeout, o, n) ==
    LET appended == appendParams(clientId, sl, timeout, o, n)
        hash == Hmac(key, toString(sort(appended)))
    IN  [appended |-> appended, signed |-> toString(sort(appended)), hash |-> hash,
         query |-> sort(append(appended, "h", hash))]

\* verify up to requestParams.append("h", hash): the parameters as
\* appended, the string the hash is made over, the hash and the query
verifyRequest(clientId, key, sl, timeout, o, n) ==
    LET appended == appendParams(clientId, sl, timeout, o, n)
        sorted == sort(appended)
        hash == Hmac(key, toString(sorted))
    IN  [appended |-> appended, signed |-> toString(sorted), hash |-> hash,
         query |-> append(sorted, "h", hash)]

\* ------------------------------------------------------------------------
\* The signed strings of the request and of the response
\* ------------------------------------------------------------------------

\* pairs.map(key + "=" + value).join("&") for values that are texts
RECURSIVE joinBody(_)
joinBody(pairs) ==
    IF pairs = <<>> THEN <<>>
    ELSE IF Len(pairs) = 1 THEN <<pairs[1][1], EQ>> \o pairs[1][2][1]
    ELSE <<pairs[1][1], EQ>> \o pairs[1][2][1] \o <<"&">> \o joinBody(Tail(pairs))

\* the number of lines of a signed response body
MaxFields == 3

ClientIds == {"87"}

\* sl and timeout as given in the options and in the environment
OptionSl == {JsUndefined, JsNumber("0"), JsNumber("50"), JsString("fast"), JsString("secure")}
EnvSl == {JsUndefined, JsString("secure")}
OptionTimeout == {JsUndefined, JsNumber("0"), JsNumber("8")}
EnvTimeout == {JsUndefined, JsString("3")}

RequestArgs ==
    [side : {"request"}, clientId : ClientIds, secret : ClientSecrets,
     options : [sl : OptionSl, timeout : OptionTimeout],
     env : [YUBICO_SL : EnvSl, YUBICO_TIMEOUT : EnvTimeout],
     otp : Otps, nonce : Nonces]

\* the lines of a response body: fields that are signed, and h
FieldLines ==
    {[key |-> k, value |-> Str(<<v>>)] : k \in {"nonce", "otp", "status", "t", "h"},
                                         v \in {"a", "b"}}

\* bodies of lines with distinct keys, in every order
ResponseArgs ==
    [side : {"response"}, secret : ClientSecrets,
     lines : UNION {{l \in [1..n -> FieldLines] :
                        \A i, j \in 1..n : i # j => l[i].key # l[j].key} :
                    n \in 1..MaxFields}]

InitSign ==
    /\ Constructed
    /\ fn = "none"
    /\ arg \in RequestArgs \cup ResponseArgs
    /\ out = <<>>

\* verify(arg.otp) of an instance constructed from arg.options and arg.env,
\* up to the query it sends
BuildRequest ==
    /\ fn = "none"
    /\ arg.side = "request"
    /\ fn' = "requestParams"
    /\ out' = verifyRequest(arg.clientId, arg.secret, thisSl(arg.options, arg.env),
                            thisTimeout(arg.options, arg.env), arg.otp, arg.nonce)
    /\ UNCHANGED <<arg, callVars>>

\* the body and the hash validate computes for the record of a response
SignResponse ==
    /\ fn = "none"
    /\ arg.side = "response"
    /\ fn' = "validate.body"
    /\ LET rec == fromRawBody(Encode(arg.lines, <<CR, LF>>, 2))
           body == CanonicalWith(rec, Undef)
       IN  out' = [response |-> rec, signed |-> body, text |-> joinBody(body),
                   hash |-> Hmac(arg.secret, body)]
    /\ UNCHANGED <<arg, callVars>>

NextSign == BuildRequest \/ SignResponse

SpecSign == InitSign /\ [][NextSign]_vars

\* the sequences that hold every element of a set once
RECURSIVE Orderings(_)
Orderings(S) ==
    IF S = {} THEN {<<>>}
    ELSE UNION {{<<x>> \o t : t \in Orderings(S \ {x})} : x \in S}

\* C19: for the same set of key/value pairs the canonical string, and hence
\* the signature, is the same for every order in which the pairs are
\* inserted, for the parameters of the request and for the fields of the
\* response that validate signs.
C19_PermutationInvariant ==
    /\ fn = "requestParams" =>
          \A p \in Orderings({out.appended[i] : i \in DOMAIN out.appended}) :
              /\ toString(sort(p)) = out.signed
              /\ Hmac(arg.secret, toString(sort(p))) = out.hash
    /\ fn = "validate.body" =>
          \A p \in Orderings({arg.lines[i] : i \in DOMAIN arg.lines}) :
              LET body == CanonicalWith(fromRawBody(Encode(p, <<CR, LF>>, 2)), Undef)
              IN  /\ body = out.signed
                  /\ Hmac(arg.secret, body) = out.hash

\* a request of six parameters whose order of appending is not the sorted
\* order
C19_Witness ==
    /\ fn = "requestParams"
    /\ Len(out.appended) = 6
    /\ toString(out.appended) # out.signed

\* C20: in the query h is the last parameter, the parameters before it are
\* in ascending order of their names, and the hash is made over exactly the
\* string of those parameters, without h.
C20_HashLastOverSorted ==
    fn = "requestParams" =>
        LET q == out.query
            n == Len(q)
            before == SubSeq(q, 1, n - 1)
        IN  /\ n >= 1
            /\ q[n][1] = "h"
            /\ \A i \in 1..(n - 1) : q[i][1] # "h"
            /\ \A i, j \in 1..(n - 1) : i < j => KeyRank(q[i][1]) < KeyRank(q[j][1])
            /\ out.signed = toString(before)
            /\ out.hash = Hmac(arg.secret, toString(before))
            /\ q[n][2] = out.hash

\* a query with sl and timeout
C20_Witness ==
    /\ fn = "requestParams"
    /\ Len(out.query) = 7
    /\ \E i \in DOMAIN out.query : out.query[i][1] = "sl"
    /\ \E i \in DOMAIN out.query : out.query[i][1] = "timeout"

\* the query has a parameter of that name
HasParam(query, name) == \E i \in DOMAIN query : query[i][1] = name

\* the query has that parameter with that value
HasParamValue(query, name, value) ==
    \E i \in DOMAIN query : query[i][1] = name /\ query[i][2] = value

\* a value was given, in the options or in the environment
Provided(option, variable) == option.kind # "undefined" \/ variable.kind # "undefined"

\* C21: the signed query always holds id, otp, nonce and timestamp=1, holds
\* sl if and only if an sl value was provided and timeout if and only if a
\* timeout value was provided, for every allowed sl (0 to 100, "fast",
\* "secure") and every numeric timeout.
C21_ParamsIffProvided ==
    fn = "requestParams" =>
        LET signed == SubSeq(out.query, 1, Len(out.query) - 1)
        IN  /\ HasParamValue(signed, "id", arg.clientId)
            /\ HasParamValue(signed, "otp", arg.otp)
            /\ HasParamValue(signed, "nonce", arg.nonce)
            /\ HasParamValue(signed, "timestamp", "1")
            /\ HasParam(signed, "sl") <=> Provided(arg.options.sl, arg.env.YUBICO_SL)
            /\ HasParam(signed, "timeout")
                   <=> Provided(arg.options.timeout, arg.env.YUBICO_TIMEOUT)

\* C22: during a verify call each configured server is sent exactly one
\* request: none is sent again after a transport failure, a status other
\* than OK or a trust violation, and none is sent after verify completed.
C22_OneRequestPerServer ==
    /\ pc = "idle" => sent = <<>>
    /\ pc # "idle" => sent = [i \in Servers |-> 1]

\* a call that completed after a transport failure and a held record
C22_Witness ==
    /\ Completed
    /\ failedResponses # <<>>
    /\ \E i \in Servers : NoAnswer(i) /\ conn[i] = "closed"
    /\ \A i \in Servers : sent[i] = 1

\* ------------------------------------------------------------------------
\* Response.getPublicId and Response.getSerialNumber
\* ------------------------------------------------------------------------

\* the hexadecimal digits in ascending order of their value
HexDigits == <<"0", "1", "2", "3", "4", "5", "6", "7", "8", "9",
               "A", "B", "C", "D", "E", "F">>

\* the value of a hexadecimal digit
HexValue(d) == (CHOOSE i \in DOMAIN HexDigits : HexDigits[i] = d) - 1

\* a conversion table in alphabetical order (b before c)
modHexConversion_Alphabetical ==
    [ch \in {"b", "c", "d", "e", "f", "g", "h", "i", "j", "k", "l", "n", "r",
             "t", "u", "v"} |->
        CASE ch = "b" -> "0" [] ch = "c" -> "1" [] ch = "d" -> "2" [] ch = "e" -> "3"
          [] ch = "f" -> "4" [] ch = "g" -> "5" [] ch = "h" -> "6" [] ch = "i" -> "7"
          [] ch = "j" -> "8" [] ch = "k" -> "9" [] ch = "l" -> "A" [] ch = "n" -> "B"
          [] ch = "r" -> "C" [] ch = "t" -> "D" [] ch = "u" -> "E" [] ch = "v" -> "F"]

\* the modHexConversion table of getSerialNumber
modHexConversion ==
    [ch \in {"b", "c", "d", "e", "f", "g", "h", "i", "j", "k", "l", "n", "r",
             "t", "u", "v"} |->
        CASE ch = "b" -> "1" [] ch = "c" -> "0" [] ch = "d" -> "2" [] ch = "e" -> "3"
          [] ch = "f" -> "4" [] ch = "g" -> "5" [] ch = "h" -> "6" [] ch = "i" -> "7"
          [] ch = "j" -> "8" [] ch = "k" -> "9" [] ch = "l" -> "A" [] ch = "n" -> "B"
          [] ch = "r" -> "C" [] ch = "t" -> "D" [] ch = "u" -> "E" [] ch = "v" -> "F"]

\* this.otp.substr(0, 12)
getPublicId(o) == SubSeq(o, 1, IF Len(o) < 12 THEN Len(o) ELSE 12)

\* publicId.split("").map(char => modHexConversion[char]).join(""): a
\* character the table does not have maps to undefined, which join writes
\* as the empty string
RECURSIVE mapJoin(_)
mapJoin(publicId) ==
    IF publicId = <<>> THEN <<>>
    ELSE (IF Head(publicId) \in DOMAIN modHexConversion
          THEN <<modHexConversion[Head(publicId)]>> ELSE <<>>)
         \o mapJoin(Tail(publicId))

\* Buffer.from(hex, "hex") of a text of hexadecimal digits: one byte per
\* pair of digits, a digit left over is dropped
BufferFromHex(hex) ==
    [i \in 1..(Len(hex) \div 2) |->
        16 * HexValue(hex[2 * i - 1]) + HexValue(hex[2 * i])]

\* a number of up to 48 bits, kept as its upper and its lower 24 bits
Number48(hi, lo) == [thrown |-> FALSE, hi |-> hi, lo |-> lo]

\* the RangeError of a read outside the buffer
RangeError == [thrown |-> TRUE, hi |-> 0, lo |-> 0]

\* a read that takes the bytes the buffer has and zero for the others
readUIntBE_NoAssert(buffer) ==
    LET byte(i) == IF i <= Len(buffer) THEN buffer[i] ELSE 0
    IN  Number48(byte(1) * 65536 + byte(2) * 256 + byte(3),
                 byte(4) * 65536 + byte(5) * 256 + byte(6))

\* buffer.readUIntBE(0, 6): throws when the buffer has fewer than 6 bytes
readUIntBE(buffer) ==
    IF Len(buffer) < 6 THEN RangeError
    ELSE Number48(buffer[1] * 65536 + buffer[2] * 256 + buffer[3],
                  buffer[4] * 65536 + buffer[5] * 256 + buffer[6])

\* Response.getSerialNumber()
getSerialNumber(o) == readUIntBE(BufferFromHex(mapJoin(getPublicId(o))))

\* ------------------------------------------------------------------------
\* The decoding of the public ID applied on its own
\* ------------------------------------------------------------------------

\* the number of positions of an OTP that differ from the rest
MaxMarked == 2

\* the modhex alphabet in the order of the nibbles 0 to F
ModhexAlphabet == <<"c", "b", "d", "e", "f", "g", "h", "i", "j", "k", "l", "n",
                    "r", "t", "u", "v">>

\* characters an OTP may hold that are not modhex
OtherChars == {"a", "C", "0"}

\* OTPs of 11, 12 and 14 characters: one character throughout, except at
\* the marked positions, which hold another one
ModhexOtps ==
    { [i \in 1..len |-> IF i \in marked THEN x ELSE filler] :
        len \in {11, 12, 14},
        marked \in {P \in SUBSET (1..14) : Cardinality(P) <= MaxMarked},
        x \in {ModhexAlphabet[i] : i \in DOMAIN ModhexAlphabet} \cup OtherChars,
        filler \in {"c", "v"} }

InitModhex ==
    /\ Constructed
    /\ fn = "none"
    /\ arg \in [otp : ModhexOtps]
    /\ out = <<>>

\* response.getPublicId()
GetPublicIdCall ==
    /\ fn = "none"
    /\ fn' = "getPublicId"
    /\ out' = getPublicId(arg.otp)
    /\ UNCHANGED <<arg, callVars>>

\* response.getSerialNumber()
GetSerialNumberCall ==
    /\ fn = "none"
    /\ fn' = "getSerialNumber"
    /\ out' = getSerialNumber(arg.otp)
    /\ UNCHANGED <<arg, callVars>>

NextModhex == GetPublicIdCall \/ GetSerialNumberCall

SpecModhex == InitModhex /\ [][NextModhex]_vars

\* the nibble of a modhex symbol
Nibble(ch) == (CHOOSE i \in DOMAIN ModhexAlphabet : ModhexAlphabet[i] = ch) - 1

\* the number a sequence of symbols denotes, first symbol most significant
RECURSIVE BigEndian(_)
BigEndian(symbols) ==
    IF symbols = <<>> THEN 0
    ELSE 16 * BigEndian(SubSeq(symbols, 1, Len(symbols) - 1))
         + Nibble(symbols[Len(symbols)])

\* the characters of the OTP among its first 12 that are not modhex
Malformed(o) ==
    {i \in 1..(IF Len(o) < 12 THEN Len(o) ELSE 12) :
        o[i] \notin {ModhexAlphabet[j] : j \in DOMAIN ModhexAlphabet}}

\* the OTP has 12 first characters, all of them modhex
ModhexPublicId(o) == Len(o) >= 12 /\ Malformed(o) = {}

\* C23: for an OTP whose first 12 characters are all modhex, getPublicId
\* returns those 12 characters and getSerialNumber returns the 48-bit number
\* of the 12 nibbles of the canonical table read big-endian; twelve times
\* "c" gives 0 and the result is within 0..2^48-1.
C23_SerialOfModhex ==
    /\ (fn = "getPublicId" /\ ModhexPublicId(arg.otp)) =>
          /\ Len(out) = 12
          /\ \A i \in 1..12 : out[i] = arg.otp[i]
    /\ (fn = "getSerialNumber" /\ ModhexPublicId(arg.otp)) =>
          /\ ~out.thrown
          /\ out.hi = BigEndian(SubSeq(arg.otp, 1, 6))
          /\ out.lo = BigEndian(SubSeq(arg.otp, 7, 12))
          /\ out.hi \in 0..16777215 /\ out.lo \in 0..16777215
          /\ (\A i \in 1..12 : arg.otp[i] = "c") => (out.hi = 0 /\ out.lo = 0)

\* a serial number with both halves set, of an OTP longer than its public ID
C23_Witness ==
    /\ fn = "getSerialNumber"
    /\ ModhexPublicId(arg.otp)
    /\ Len(arg.otp) > 12
    /\ ~out.thrown /\ out.hi > 0 /\ out.lo > 0 /\ out.hi # out.lo

\* C24: for an OTP with a character outside the modhex alphabet among its
\* first 12, getSerialNumber fails with an error; it returns neither zero
\* nor a number made of a part of the characters.
C24_MalformedFails ==
    (fn = "getSerialNumber" /\ Malformed(arg.otp) # {}) => out.thrown

\* getSerialNumber failed on an OTP of 12 characters, one of them not modhex
C24_Witness ==
    /\ fn = "getSerialNumber"
    /\ Len(arg.otp) = 12
    /\ Cardinality(Malformed(arg.otp)) = 1
    /\ out.thrown

\* ------------------------------------------------------------------------
\* The constructor
\* ------------------------------------------------------------------------

ClientIdError ==
    <<"Either clientId must be set in the constructor, or YUBICO_CLIENT_ID set as an environment variable">>
SecretError ==
    <<"Either clientId must be set in the constructor, or YUBICO_SECRET set as an environment variable">>

\* text.split(","): the texts between the commas
RECURSIVE splitComma(_)
splitComma(text) ==
    LET commas == {p \in 1..Len(text) : text[p] = ","}
    IN  IF commas = {} THEN <<text>>
        ELSE LET p == CHOOSE q \in commas : \A r \in commas : q <= r
             IN  <<SubSeq(text, 1, p - 1)>> \o splitComma(SubSeq(text, p + 1, Len(text)))

\* this.apiServers as the constructor sets it: options.apiServers is
\* undefined (Undef) or an array, YUBICO_API_SERVERS undefined or a text
thisApiServers(options, env) ==
    IF options.apiServers # Undef THEN options.apiServers[1]
    ELSE IF env.YUBICO_API_SERVERS # Undef /\ env.YUBICO_API_SERVERS[1] # <<>>
         THEN splitComma(env.YUBICO_API_SERVERS[1])
         ELSE [i \in DOMAIN API_SERVERS |-> <<API_SERVERS[i]>>]

\* what new Yubico(options) gives: the error thrown, or the fields
Instance(failure, clientId, key, sl, timeout, servers) ==
    [error |-> failure, clientId |-> clientId, secret |-> key, sl |-> sl,
     timeout |-> timeout, apiServers |-> servers]

\* a constructor that takes what the environment has, without a test
construct_NoThrow(options, env) ==
    Instance(NoError,
             IF Truthy(options.clientId) THEN options.clientId ELSE env.YUBICO_CLIENT_ID,
             IF Truthy(options.secret) THEN options.secret ELSE env.YUBICO_SECRET,
             thisSl(options, env), thisTimeout(options, env),
             thisApiServers(options, env))

\* new Yubico(options) in the environment env
construct(options, env) ==
    IF ~Truthy(options.clientId) /\ ~Truthy(env.YUBICO_CLIENT_ID)
    THEN Instance(ClientIdError, JsUndefined, JsUndefined, JsUndefined, JsUndefined, <<>>)
    ELSE IF ~Truthy(options.secret) /\ ~Truthy(env.YUBICO_SECRET)
    THEN Instance(SecretError, JsUndefined, JsUndefined, JsUndefined, JsUndefined, <<>>)
    ELSE Instance(NoError,
                  IF Truthy(options.clientId) THEN options.clientId
                  ELSE env.YUBICO_CLIENT_ID,
                  IF Truthy(options.secret) THEN options.secret ELSE env.YUBICO_SECRET,
                  thisSl(options, env), thisTimeout(options, env),
                  thisApiServers(options, env))

\* the options and the environment a constructor call may meet
ConstructArgs ==
    [options : [clientId : {JsUndefined, JsString(""), JsString("87")},
                secret : {JsUndefined, JsString(""), JsString("c2VjcmV0QQ==")},
                sl : {JsUndefined, JsNumber("0"), JsString("fast")},
                timeout : {JsUndefined, JsNumber("8")},
                apiServers : {Undef, Str(<<>>), Str(<<<<"val1.example">>>>)}],
     env : [YUBICO_CLIENT_ID : {JsUndefined, JsString(""), JsString("91")},
            YUBICO_SECRET : {JsUndefined, JsString(""), JsString("c2VjcmV0Qg==")},
            YUBICO_SL : {JsUndefined, JsString("secure")},
            YUBICO_TIMEOUT : {JsUndefined, JsString("3")},
            YUBICO_API_SERVERS : {Undef, Str(<<>>),
                                  Str(<<"val2.example", ",", "val3.example">>)}]]

InitConstruct ==
    /\ Constructed
    /\ fn = "none"
    /\ arg \in ConstructArgs
    /\ out = <<>>

\* new Yubico(arg.options) in the environment arg.env
ConstructCall ==
    /\ fn = "none"
    /\ fn' = "constructor"
    /\ out' = construct(arg.options, arg.env)
    /\ UNCHANGED <<arg, callVars>>

NextConstruct == ConstructCall

SpecConstruct == InitConstruct /\ [][NextConstruct]_vars

\* a value is given: it is defined and not the empty string
Given(v) == v.kind # "undefined" /\ v.text # ""

\* C25: the constructor yields no instance without a client id and a
\* secret: each is taken from the options when given there, otherwise from
\* its environment variable, and construction throws when one of them is
\* given in neither.
C25_ClientIdAndSecretRequired ==
    fn = "constructor" =>
        LET o == arg.options
            v == arg.env
        IN  /\ out.error # NoError <=>
                  \/ ~Given(o.clientId) /\ ~Given(v.YUBICO_CLIENT_ID)
                  \/ ~Given(o.secret) /\ ~Given(v.YUBICO_SECRET)
            /\ out.error = NoError =>
                  /\ Given(out.clientId) /\ Given(out.secret)
                  /\ out.clientId = IF Given(o.clientId) THEN o.clientId
                                    ELSE v.YUBICO_CLIENT_ID
                  /\ out.secret = IF Given(o.secret) THEN o.secret ELSE v.YUBICO_SECRET

\* an instance whose client id is from the environment and whose secret is
\* from the options
C25_Witness ==
    /\ fn = "constructor"
    /\ out.error = NoError
    /\ ~Given(arg.options.clientId) /\ out.clientId = arg.env.YUBICO_CLIENT_ID
    /\ Given(arg.options.secret) /\ out.secret = arg.options.secret

\* C26: validate checks status, nonce, signature and OTP in that order and
\* reports the first check that fails: a record whose status is not OK
\* yields the error of its status whatever its nonce, h and otp are; an OK
\* record with a wrong nonce yields the nonce error whatever its h and otp
\* are; an OK record with the right nonce and a wrong h yields the hash
\* error whatever its otp is.
C26_FirstFailingCheck ==
    fn = "validate" =>
        /\ arg.rec.status # "OK" =>
              /\ out = StatusBranchError(arg.rec.status)
              /\ out \notin TrustErrors \cup {NoError}
        /\ (arg.rec.status = "OK" /\ ~NonceMatches) => out = NonceError
        /\ (arg.rec.status = "OK" /\ NonceMatches /\ ~SignatureMatches) => out = HashError
        /\ (arg.rec.status = "OK" /\ NonceMatches /\ SignatureMatches /\ ~OtpMatches)
              => out = OtpError

\* the hash error for an OK record whose h and otp are both wrong
C26_Witness ==
    /\ fn = "validate"
    /\ arg.rec.status = "OK" /\ NonceMatches /\ ~SignatureMatches /\ ~OtpMatches
    /\ out = HashError

\* C27: the string validate signs holds exactly the keys of {nonce, otp,
\* sessioncounter, sessionuse, sl, status, t, timestamp} that are defined
\* in the record, each once, in ascending order, joined as k=v with '&';
\* it holds neither h nor a key whose field is absent.
C27_CanonicalBody ==
    fn = "validate.body" =>
        LET b == out.signed
            n == Len(b)
            fixed == {"nonce", "otp", "sessioncounter", "sessionuse", "sl", "status",
                      "t", "timestamp"}
        IN  /\ \A k \in fixed :
                  Cardinality({i \in 1..n : b[i][1] = k})
                      = IF out.response[k] # Undef THEN 1 ELSE 0
            /\ \A i \in 1..n : b[i][1] \in fixed /\ b[i][2] = out.response[b[i][1]]
            /\ \A i, j \in 1..n : i < j => KeyRank(b[i][1]) < KeyRank(b[j][1])
            /\ Len(out.text) = IF n = 0 THEN 0 ELSE 4 * n - 1
            /\ \A i \in 1..n :
                  /\ out.text[4 * i - 3] = b[i][1]
                  /\ out.text[4 * i - 2] = EQ
                  /\ <<out.text[4 * i - 1]>> = b[i][2][1]
                  /\ i < n => out.text[4 * i] = "&"

\* the string of a record that has an h and two signed fields, whose lines
\* came in descending order of their keys
C27_Witness ==
    /\ fn = "validate.body"
    /\ out.response.h # Undef
    /\ Len(out.signed) = 2
    /\ Len(arg.lines) = 3
    /\ \A i, j \in 1..3 : i < j => KeyRank(arg.lines[i].key) > KeyRank(arg.lines[j].key)

\* C28: the return after the loop is never reached: the first held record
\* has a status other than OK, so validating it throws, and verify never
\* returns a record taken from failedResponses.
C28_FallThroughUnreachable ==
    /\ \A i \in DOMAIN failedResponses :
          /\ failedResponses[i].status # "OK"
          /\ validate(failedResponses[i], nonce, secret, otp) # NoError
    /\ pc = "returned" =>
          /\ idx \in Servers
          /\ result = <<RecordOf(idx)>>
          /\ \A i \in DOMAIN failedResponses : failedResponses[i] # result[1]
    /\ (Completed /\ idx = Len(apiServers) + 1) => pc = "thrown"

\* the loop ended with held records and verify threw
C28_Witness ==
    /\ pc = "thrown"
    /\ idx = Len(apiServers) + 1
    /\ Len(failedResponses) >= 2
    /\ error = validate(failedResponses[1], nonce, secret, otp)

\* bodies that lack fields of the record: a line with a key the record does
\* not have, an otp line alone, a blank line alone, and the empty body
IncompleteBodies ==
    { <<"zz", EQ, "a", CR, LF, CR, LF>>, <<"otp", EQ, "a", LF, LF>>,
      <<CR, LF, CR, LF>>, <<>> }

\* a field of a parsed record as the records of the servers hold it
Lift(v) == IF v = Undef THEN Undefined ELSE v[1][1]

\* a parsed record without an h as the records of the servers hold it
LiftRecord(r) ==
    Response(Lift(r.otp), Lift(r.nonce), NoHash, Lift(r.t), Lift(r.status),
             Lift(r.timestamp), Lift(r.sessioncounter), Lift(r.sessionuse),
             Lift(r.sl))

\* fromRawBody gives a record for each of these bodies: a key the record
\* does not have leaves no trace, a key the body lacks leaves its field
\* absent, and a body without a recognised line gives the record without
\* any field
ParserLenient ==
    /\ \A body \in IncompleteBodies :
          LET r == fromRawBody(body)
          IN  /\ DOMAIN r = DOMAIN EmptyRecord
              /\ r.status = Undef /\ r.h = Undef /\ r.nonce = Undef
              /\ r.otp = IF Len(body) > 0 /\ body[1] = "otp" THEN Str(<<"a">>) ELSE Undef
    /\ LiftRecord(fromRawBody(<<"zz", EQ, "a", CR, LF, CR, LF>>)) = EmptyRecord

\* server i answered 200 with a body that has no status line, and the loop
\* has passed it
NoStatusProcessed(i) ==
    Processed(i) /\ HasRecord(i) /\ RecordOf(i).status = Undefined

\* C29 (as stated): the parser gives a record for a body that lacks fields;
\* a 200 reply without a status is held as a candidate failure, and when no
\* record with status OK is validated in the call (the loop ends without
\* meeting one), verify fails with the "Unknown status" error, not with the
\* network error.
C29_NoStatusGivesUnknownStatus ==
    /\ ParserLenient
    /\ (pc = "thrown" /\ idx = Len(apiServers) + 1
            /\ \E i \in Servers : NoStatusProcessed(i))
          => error = UnknownStatusError(Undefined)

\* C29 (amended): the parser gives a record for a body that lacks fields; a
\* 200 reply without a status is held as a candidate failure, so a call that
\* ends its loop with such a record held does not fail with the network
\* error, and fails with the "Unknown status" error when that record is the
\* first one held.
C29_NoStatusHeldAsCandidate ==
    /\ ParserLenient
    /\ \A i \in Servers :
          NoStatusProcessed(i) =>
              \E k \in DOMAIN failedResponses : failedResponses[k] = RecordOf(i)
    /\ (pc = "thrown" /\ idx = Len(apiServers) + 1
            /\ \E k \in DOMAIN failedResponses : failedResponses[k].status = Undefined)
          => /\ error # NetworkError
             /\ failedResponses[1].status = Undefined
                    => error = UnknownStatusError(Undefined)

\* verify failed with "Unknown status" after a transport failure and a reply
\* without a status
C29_Witness ==
    /\ pc = "thrown"
    /\ error = UnknownStatusError(Undefined)
    /\ \E i \in Servers : NoStatusProcessed(i)
    /\ \E j \in Servers : NoAnswer(j) /\ conn[j] = "closed"

\* ------------------------------------------------------------------------
\* Termination of verify
\* ------------------------------------------------------------------------

\* the number of servers of the calls whose termination is checked
MaxLiveServers == 2

InitLive == Init /\ Len(apiServers) <= MaxLiveServers

\* a step of the loop of verify
LoopStep == LoopNoResponse \/ LoopOk \/ LoopFailed \/ LoopExit

\* the condition under which the OK branch of the loop can run
LoopOkEnabled == Awaited /\ HasRecord(idx) /\ RecordOf(idx).status = "OK"

\* weak fairness of the OK branch, with its enabling condition written out
LoopOkFair == []<>(~LoopOkEnabled) \/ []<><<LoopOk>>_vars

\* The continuation of the for await loop runs once the promise it awaits
\* is resolved, so each branch of the loop is weakly fair; nothing makes a
\* request settle, so the network events are not.
SpecLive ==
    /\ InitLive
    /\ [][Next]_vars
    /\ WF_vars(LoopNoResponse)
    /\ WF_vars(LoopFailed)
    /\ WF_vars(LoopExit)
    /\ LoopOkFair

\* every request of the call has settled
AllSettled == pc # "idle" /\ \A i \in Servers : requestPromises[i].settled

\* the loop is at a promise that is still pending
WaitingOnPending == pc = "loop" /\ idx \in Servers /\ ~requestPromises[idx].settled

\* the kinds of outcome the completed call has
OutcomeKinds ==
    {k \in {"validated record", "trust violation", "status error", "network error"} :
        CASE k = "validated record" ->
                 /\ pc = "returned" /\ error = NoError /\ result # <<>>
                 /\ validate(result[1], nonce, secret, otp) = NoError
          [] k = "trust violation" ->
                 pc = "thrown" /\ result = <<>> /\ error \in TrustErrors
          [] k = "status error" ->
                 /\ pc = "thrown" /\ result = <<>>
                 /\ \E i \in DOMAIN failedResponses :
                        error = StatusBranchError(failedResponses[i].status)
          [] k = "network error" ->
                 pc = "thrown" /\ result = <<>> /\ error = NetworkError}

\* C30: when every request of the call has settled, verify completes, with
\* exactly one outcome out of validated record, trust violation, status
\* error and network error; while the promise the loop awaits is pending the
\* call stays where it is, as no step of verify gives the promise up.
C30_Termination ==
    /\ [](Completed => Cardinality(OutcomeKinds) = 1)
    /\ [][(WaitingOnPending => (pc' = pc /\ idx' = idx))
          /\ (Completed => Outcome' = Outcome)]_vars
    /\ (AllSettled ~> Completed)

\* a call that waited on its first server, whose requests all settled by
\* themselves and which completed
C30_Witness ==
    /\ Completed
    /\ AllSettled
    /\ AllEndedByThemselves
    /\ Len(apiServers) = 2
    /\ Len(completion) = 1 /\ completion[1] = 2

\* ------------------------------------------------------------------------
\* The compiled Response.prototype.getSerialNumber
\* ------------------------------------------------------------------------

\* the modHexConversion table of the compiled getSerialNumber
compiledModHexConversion ==
    [ch \in {"b", "c", "d", "e", "f", "g", "h", "i", "j", "k", "l", "m", "n",
             "r", "t", "u", "v"} |->
        CASE ch = "b" -> "1" [] ch = "c" -> "0" [] ch = "d" -> "2" [] ch = "e" -> "3"
          [] ch = "f" -> "4" [] ch = "g" -> "5" [] ch = "h" -> "6" [] ch = "i" -> "7"
          [] ch = "j" -> "8" [] ch = "k" -> "9" [] ch = "l" -> "A" [] ch = "m" -> "B"
          [] ch = "n" -> "C" [] ch = "r" -> "D" [] ch = "t" -> "E" [] ch = "u" -> "F"
          [] ch = "v" -> "G"]

\* publicId.split("").map(function (char) { return modHexConversion[char]; })
\* .join("") with the table of the compiled code
RECURSIVE compiledMapJoin(_)
compiledMapJoin(publicId) ==
    IF publicId = <<>> THEN <<>>
    ELSE (IF Head(publicId) \in DOMAIN compiledModHexConversion
          THEN <<compiledModHexConversion[Head(publicId)]>> ELSE <<>>)
         \o compiledMapJoin(Tail(publicId))

\* the character is a hexadecimal digit
IsHexDigit(d) == \E i \in DOMAIN HexDigits : HexDigits[i] = d

\* the number of bytes Buffer.from(text, "hex") decodes: decoding stops at
\* the first pair that holds a character that is no hexadecimal digit
DecodedPairs(text) ==
    CHOOSE n \in 0..(Len(text) \div 2) :
        /\ \A i \in 1..(2 * n) : IsHexDigit(text[i])
        /\ \/ n = Len(text) \div 2
           \/ ~IsHexDigit(text[2 * n + 1])
           \/ ~IsHexDigit(text[2 * n + 2])

\* Buffer.from(text, "hex") of any text
BufferFromText(text) ==
    [i \in 1..DecodedPairs(text) |->
        16 * HexValue(text[2 * i - 1]) + HexValue(text[2 * i])]

\* Response.prototype.getSerialNumber of the compiled code
compiledGetSerialNumber(o) ==
    readUIntBE(BufferFromText(compiledMapJoin(getPublicId(o))))

\* response.getSerialNumber() on the compiled Response
CompiledGetSerialNumberCall ==
    /\ fn = "none"
    /\ fn' = "compiled.getSerialNumber"
    /\ out' = compiledGetSerialNumber(arg.otp)
    /\ UNCHANGED <<arg, callVars>>

NextCompiled == GetSerialNumberCall \/ CompiledGetSerialNumberCall

SpecCompiled == InitModhex /\ [][NextCompiled]_vars

\* C31: for an OTP whose first 12 characters are all modhex, getSerialNumber
\* of the compiled code returns what getSerialNumber of Response.ts returns.
C31_CompiledAgrees ==
    (fn = "compiled.getSerialNumber" /\ ModhexPublicId(arg.otp)) =>
        out = getSerialNumber(arg.otp)

\* ------------------------------------------------------------------------
\* The list of candidate failures
\* ------------------------------------------------------------------------

\* the records with a status other than OK among the results of the first
\* n servers, in the order of the servers
RECURSIVE HeldUpTo(_)
HeldUpTo(n) ==
    IF n = 0 THEN <<>>
    ELSE HeldUpTo(n - 1)
         \o (IF HasRecord(n) /\ RecordOf(n).status # "OK"
             THEN <<RecordOf(n)>> ELSE <<>>)

\* C32: at every point of a verify call failedResponses holds only records
\* whose status is not OK, namely the record of every server the loop has
\* passed that answered one, once each and in the order processed; a
\* processed record with status OK is not held, it is where the loop
\* stopped, and verify returned it or threw what validate threw for it.
C32_FailedResponsesHeld ==
    pc # "idle" =>
        /\ \A k \in DOMAIN failedResponses : failedResponses[k].status # "OK"
        /\ failedResponses = HeldUpTo(idx - 1)
        /\ \A i \in Servers :
              (Processed(i) /\ HasRecord(i) /\ RecordOf(i).status = "OK") =>
                  /\ i = idx
                  /\ Completed
                  /\ pc = "returned" => result = <<RecordOf(i)>>
                  /\ pc = "thrown" =>
                        error = validate(RecordOf(i), nonce, secret, otp)

\* verify ended its loop with the two different records of two of its
\* servers held, the one of the earlier server first
C32_Witness ==
    /\ pc = "thrown"
    /\ idx = Len(apiServers) + 1
    /\ Len(failedResponses) = 2
    /\ failedResponses[1] # failedResponses[2]
    /\ \E i, j \in Servers :
          /\ i < j
          /\ HasRecord(i) /\ failedResponses[1] = RecordOf(i)
          /\ HasRecord(j) /\ failedResponses[2] = RecordOf(j)

====
